---- MODULE Spec2Model ----
(***************************************************************************)
(* Model of the anti-tampering dashboard's concurrent core                 *)
(* (src/scripts/anti_tampering_dashboard/app.py): the EventBus, the        *)
(* tail_file thread that publishes into it, and the /events handler        *)
(* threads (Handler.do_GET) that consume from it.                          *)
(*                                                                         *)
(* A subscriber queue is identified by the connection that created it:     *)
(* do_GET calls subscribe() exactly once, so queue objects and /events     *)
(* connections are in bijection.  A payload is identified by its ordinal   *)
(* in the sequence of publish calls; published[n] is the event it carries. *)
(***************************************************************************)
EXTENDS Integers, Sequences, FiniteSets, TLC

\* ------------------------------------------------------------------ bounds
\* queue.Queue(maxsize=500) at app.py:73.  The model is parametric in the
\* capacity and is checked with this small stand-in for 500.
QueueMaxsize == 2
\* Number of publish calls the producer makes in the bus specifications.
MaxPublish == 3
\* Keep-alive frames one connection may be sent.
MaxPing == 1

\* Longest line, in pieces, handed to parse_line.
MaxLineLen == 5
\* Longest content of the tailed file.
MaxFileLen == 2
\* Truncations, rotations and removals of the tailed file.
MaxFsOps == 1

\* The /events connections (each one handler thread of ThreadingHTTPServer).
Conns == {"c1", "c2"}
NoConn == "none"

\* The inodes the tailed path may name over time, and the characters of the
\* file: "H" stands for a well-formed "[ts] - [ANTI_TAMPERING_X] " header
\* (a line of H's is a warning line), "\n" ends a line.
Inodes == {"i1", "i2"}
NoFile == "nofile"
Chars == {"H", "\n"}
\* The pieces a log line is made of: "TS" a bracketed timestamp "[...]", "-"
\* the dash, "TAG" a bracketed tag "[ANTI_TAMPERING_X]", " " whitespace, "w"
\* any other text (a word, a malformed bracket); "MM" the text of a hash
\* mismatch "Hash mismatch for file p (size=1, verify_fd=2); Stored hash: ab;
\* Computed hash: cd" and "BIG" the same with a size of more digits than int()
\* may accept; "HF" the text "Hash file h", "NE" the text "x does not exist
\* for file p", "FO" the text "Failed to open verification fd for file p".
Tokens == {"TS", "-", "TAG", " ", "w", "MM", "BIG", "HF", "NE", "FO"}
Unparsed == [kind |-> "unparsed", severity |-> "", shape |-> ""]
NoPass == [seen |-> <<>>, read |-> <<>>, from |-> 0, to |-> 0]
NoObs == [kind |-> "none", seen |-> NoFile, changed |-> FALSE,
          afterMissing |-> FALSE, sameAsLost |-> FALSE, lost |-> NoFile,
          err |-> FALSE]

VARIABLES
    \* EventBus
    registry,     \* EventBus._subscribers, as the set of queue owners
    queue,        \* queue[c]: contents of the queue made by c's subscribe()
    \* the frame of the publish call in progress (one producer thread)
    pubpc,        \* "idle" | "iter" (for q in subs) | "drop" (line 91) | "retry" (line 92)
    pubSubs,      \* members of the snapshot `subs` not yet iterated
    pubCur,       \* the q whose put_nowait raised Full (inside the handler)
    pubPayload,   \* the payload argument
    published,    \* history: the events passed to publish, in call order
    \* Handler.do_GET, one per connection
    cpc,          \* "OPEN" | "ACK" | "WAIT" | "EVENT" | "PING" | "FINALLY" | "CLOSED"
    peer,         \* "up" | "down": whether the remote end is still there
    wire,         \* frames written to the connection so far, in order (history,
                  \* kept while the streaming loop runs)
    got,          \* the local `payload` between q.get and the write
    exc,          \* what ended the handler: "none" | "headers" | "peer" | "other"
    \* history variables used only to state properties
    overflowed,   \* overflowed[c]: some put_nowait on c's queue raised Full
    subAt,        \* number of publish calls made when c subscribed
    waitlog,      \* outcomes of c's completed q.get calls
    fanPre,       \* contents of pubCur's queue when Full was raised
    fanDisturbed, \* pubCur's consumer dequeued since Full was raised
    lastFan,      \* outcome of the Full handler the last step completed
    ackLate,      \* c's last write was that of ": ok", with a payload already queued
    \* a client that calls the EventBus methods directly
    handles,      \* the queues subscribe() has returned to it
    apiLast,      \* its last unsubscribe call and what the call did
    \* the file system, as far as the tailed path is concerned
    fsPath,       \* the inode the path names, or NoFile
    fsData,       \* fsData[i]: the content of inode i, a sequence of characters
    fsOps,        \* truncations, rotations and removals done so far
    \* tail_file
    stop,         \* stop_evt.is_set()
    tpc,          \* "loop" | "stat" | "open" | "check" | "read" | "sleep" | "done"
    pos,          \* the local `pos`
    last_inode,   \* the local `last_inode`, NoFile for None
    fh,           \* the inode the open file object `f` reads, or NoFile
    fpos,         \* the position of `f`
    \* history variables used only to state properties
    truncSeek,    \* "none" | "pending": the file was truncated below pos and the
                  \* tailer has not opened it since | "stale": it then opened it
                  \* and did not seek to 0
    record,       \* whether the history of the passes is kept (it never changes)
    pass,         \* the pass in progress (since the cursor was last reset):
                  \* `seen` the content of the file, up to the position of
                  \* `f`, when it last reached the end of the file, `read` the
                  \* lines readline returned in it, one after the other (up
                  \* to one character more than the longest file), `from`/`to`
                  \* the publish calls made before it began / when it last
                  \* reached the end of the file
    prev,         \* the same for the last pass before a reset that had
                  \* reached the end of its file
    afterStop,    \* lines read and sleeps begun with the stop signal set
    \* parse_line on its own
    pline,        \* the line handed to parse_line
    pres,         \* what the call did: kind "none" (returned None), "event"
                  \* (returned an event of that severity, built by the branch
                  \* `shape`) or "raise" (an exception left it); "unparsed"
                  \* before the call
    tailObs       \* what the poll in progress found: kind "ok" with the
                  \* identity `seen` by stat, whether it differed from the
                  \* stored one (`changed`), whether the poll before found the
                  \* path missing (`afterMissing`) and had lost this very
                  \* identity (`sameAsLost`); kind "missing", kept until the
                  \* next stat, with the identity `lost` if lines of it had
                  \* been read; kind "none" otherwise; `err` whether an
                  \* exception ended the last poll (until the next stat that
                  \* finds the file)

busVars == <<registry, queue, pubpc, pubSubs, pubCur, pubPayload, published>>
connVars == <<cpc, peer, wire, got, exc>>
histVars == <<overflowed, subAt, waitlog, fanPre, fanDisturbed, lastFan, ackLate>>
apiVars == <<handles, apiLast>>
parseVars == <<pline, pres>>
fsVars == <<fsPath, fsData, fsOps>>
passVars == <<record, pass, prev>>
tailVars == <<fsVars, stop, tpc, pos, last_inode, fh, fpos, truncSeek, tailObs,
              passVars, afterStop>>
vars == <<busVars, connVars, histVars, apiVars, parseVars, tailVars>>

\* ------------------------------------------------------------------ frames
AckFrame == [type |-> "ok", payload |-> 0]
PingFrame == [type |-> "ping", payload |-> 0]
EventFrame(p) == [type |-> "event", payload |-> p]

NoFan == [q |-> NoConn, payload |-> 0, pre |-> <<>>, post |-> <<>>,
          disturbed |-> FALSE, outcome |-> "none"]
NoApi == [q |-> NoConn, member |-> FALSE, raised |-> FALSE,
          regBefore |-> {}, regAfter |-> {}, queueSame |-> TRUE]

\* The events the producer publishes in the bus specifications.
BusEvents == {[raw |-> <<"H">>]}

\* ------------------------------------------------------------ queue.Queue
\* Mutant: the capacity test is off by one.
QFullOffByOne(items) == Len(items) > QueueMaxsize
\* put_nowait raises queue.Full when the queue holds maxsize items.
QFull(items) == Len(items) >= QueueMaxsize
QEmpty(items) == Len(items) = 0
\* Mutant: the payload is put at the head of the queue.
QPutFront(items, p) == <<p>> \o items
\* put appends at the right end of the deque, get pops the left end.
QPut(items, p) == Append(items, p)
QGet(items) == Tail(items)
\* Mutant: the Full handler discards the newest item.
DropNewest(items) == SubSeq(items, 1, Len(items) - 1)
\* line 91, `_ = q.get_nowait()`: what is left after the discarded item.
DropOne(items) == QGet(items)

\* ----------------------------------------------------------------- EventBus
\* Mutant: the for loop of publish runs inside `with self._lock`.
LockHeldDuringFanOut == pubpc # "idle"
\* lines 83-85: publish holds the lock for the copy of the set only (one step
\* of the model) and has released it when the for loop begins.
LockHeld == FALSE

\* subscribe(): a new empty queue, added to the set under the lock.
Subscribe(c) ==
    /\ ~LockHeld
    /\ queue' = [queue EXCEPT ![c] = <<>>]
    /\ registry' = registry \cup {c}

\* Mutant: set.remove(q), which raises KeyError when q is not a member.
Remove(set, q) == [set |-> set \ {q}, raised |-> q \notin set]
\* set.discard(q): removes q when it is a member, and never raises.
Discard(set, q) == [set |-> set \ {q}, raised |-> FALSE]

\* unsubscribe(q): set.discard under the lock.
Unsubscribe(c) ==
    /\ ~LockHeld
    /\ registry' = Discard(registry, c).set

\* publish(payload), lines 83-84: the snapshot, taken under the lock.
PublishSnapshot(ev) ==
    /\ pubpc = "idle"
    /\ published' = Append(published, ev)
    /\ pubPayload' = Len(published) + 1
    /\ pubSubs' = registry
    /\ pubCur' = NoConn
    /\ pubpc' = "iter"

\* Mutant: q.put(payload), which waits for room instead of raising Full.
PublishPutBlocking(q) ==
    /\ pubpc = "iter"
    /\ q \in pubSubs
    /\ ~QFull(queue[q])
    /\ queue' = [queue EXCEPT ![q] = QPut(@, pubPayload)]
    /\ pubSubs' = pubSubs \ {q}
    /\ lastFan' = NoFan
    /\ UNCHANGED <<pubpc, pubCur, overflowed, fanPre, fanDisturbed>>
    /\ UNCHANGED <<registry, pubPayload, published, connVars, subAt, waitlog, ackLate,
                   apiVars, parseVars, tailVars>>

\* lines 85-88: the next q of the for loop (a set has no order) and its
\* put_nowait; Full enters the handler.
PublishPut(q) ==
    /\ pubpc = "iter"
    /\ q \in pubSubs
    /\ IF QFull(queue[q])
       THEN /\ pubpc' = "drop"
            /\ pubCur' = q
            /\ overflowed' = [overflowed EXCEPT ![q] = TRUE]
            /\ fanPre' = queue[q]
            /\ fanDisturbed' = FALSE
            /\ lastFan' = NoFan
            /\ UNCHANGED <<queue, pubSubs>>
       ELSE /\ queue' = [queue EXCEPT ![q] = QPut(@, pubPayload)]
            /\ pubSubs' = pubSubs \ {q}
            /\ lastFan' = NoFan
            /\ UNCHANGED <<pubpc, pubCur, overflowed, fanPre, fanDisturbed>>
    /\ UNCHANGED <<registry, pubPayload, published, connVars, subAt, waitlog, ackLate,
                   apiVars, parseVars, tailVars>>

\* line 91: q.get_nowait(); queue.Empty is swallowed by `except Exception`.
PublishDrop ==
    /\ pubpc = "drop"
    /\ IF QEmpty(queue[pubCur])
       THEN /\ pubpc' = "iter"
            /\ pubSubs' = pubSubs \ {pubCur}
            /\ pubCur' = NoConn
            /\ lastFan' = [q |-> pubCur, payload |-> pubPayload, pre |-> fanPre,
                           post |-> queue[pubCur], disturbed |-> fanDisturbed,
                           outcome |-> "empty"]
            /\ fanPre' = <<>>
            /\ fanDisturbed' = FALSE
            /\ UNCHANGED queue
       ELSE /\ queue' = [queue EXCEPT ![pubCur] = DropOne(@)]
            /\ pubpc' = "retry"
            /\ UNCHANGED <<pubSubs, pubCur, lastFan, fanPre, fanDisturbed>>
    /\ UNCHANGED <<registry, pubPayload, published, connVars, overflowed, subAt,
                   waitlog, ackLate, apiVars, parseVars, tailVars>>

\* line 92: the second put_nowait; Full is swallowed by `except Exception`.
PublishRetry ==
    /\ pubpc = "retry"
    /\ LET after == IF QFull(queue[pubCur]) THEN queue[pubCur]
                    ELSE QPut(queue[pubCur], pubPayload)
       IN /\ queue' = [queue EXCEPT ![pubCur] = after]
          /\ lastFan' = [q |-> pubCur, payload |-> pubPayload, pre |-> fanPre,
                         post |-> after, disturbed |-> fanDisturbed,
                         outcome |-> IF QFull(queue[pubCur]) THEN "full" ELSE "put"]
    /\ pubpc' = "iter"
    /\ pubSubs' = pubSubs \ {pubCur}
    /\ pubCur' = NoConn
    /\ fanPre' = <<>>
    /\ fanDisturbed' = FALSE
    /\ UNCHANGED <<registry, pubPayload, published, connVars, overflowed, subAt,
                   waitlog, ackLate, apiVars, parseVars, tailVars>>

\* the for loop is exhausted: publish returns.
PublishReturn ==
    /\ pubpc = "iter"
    /\ pubSubs = {}
    /\ pubpc' = "idle"
    /\ lastFan' = NoFan
    /\ UNCHANGED <<registry, queue, pubSubs, pubCur, pubPayload, published,
                   connVars, overflowed, subAt, waitlog, fanPre, fanDisturbed,
                   ackLate, apiVars, parseVars, tailVars>>

\* One step of the publish call in progress.
PublishStep ==
    \/ \E q \in Conns : PublishPut(q)
    \/ PublishDrop
    \/ PublishRetry
    \/ PublishReturn

\* The producer thread as the bus sees it: tail_file calls publish at line
\* 195, one call after the other.
CallPublish ==
    /\ Len(published) < MaxPublish
    /\ \E ev \in BusEvents : PublishSnapshot(ev)
    /\ UNCHANGED <<registry, queue, connVars, histVars, apiVars, parseVars, tailVars>>

\* ------------------------------------------------------------ Handler.do_GET
\* The q.get calls of c that have timed out so far.
Pings(c) == Cardinality({i \in DOMAIN waitlog[c] : waitlog[c][i].type = "ping"})

\* The wire and the history of a connection are kept while its streaming loop
\* runs and dropped when a write fails: nothing is written to it afterwards.
Forget(c) ==
    /\ wire' = [wire EXCEPT ![c] = <<>>]
    /\ overflowed' = [overflowed EXCEPT ![c] = FALSE]
    /\ subAt' = [subAt EXCEPT ![c] = 0]
    /\ waitlog' = [waitlog EXCEPT ![c] = <<>>]
    /\ ackLate' = [ackLate EXCEPT ![c] = FALSE]

\* self.wfile.write + flush of one frame at a connection in state `at`:
\* it succeeds, or raises BrokenPipeError/ConnectionResetError (peer gone),
\* or raises something else; any exception leaves through `finally`.
Write(c, at, frame) ==
    /\ cpc[c] = at
    /\ \/ /\ peer[c] = "up"
          /\ wire' = [wire EXCEPT ![c] = Append(@, frame)]
          /\ cpc' = [cpc EXCEPT ![c] = "WAIT"]
          /\ ackLate' = [ackLate EXCEPT ![c] = (at = "ACK" /\ ~QEmpty(queue[c]))]
          /\ UNCHANGED <<exc, overflowed, subAt, waitlog>>
       \/ /\ peer[c] = "up"
          /\ exc' = [exc EXCEPT ![c] = "other"]
          /\ cpc' = [cpc EXCEPT ![c] = "FINALLY"]
          /\ Forget(c)
       \/ /\ peer[c] = "down"
          /\ exc' = [exc EXCEPT ![c] = "peer"]
          /\ cpc' = [cpc EXCEPT ![c] = "FINALLY"]
          /\ Forget(c)
    /\ got' = [got EXCEPT ![c] = 0]
    /\ lastFan' = NoFan
    /\ UNCHANGED <<busVars, peer, fanPre, fanDisturbed, apiVars, parseVars, tailVars>>

\* Connections are named in the order in which the server accepts them.
Earlier(c) == IF c = "c2" THEN {"c1"} ELSE {}
Accepted(c) == \A d \in Earlier(c) : cpc[d] # "OPEN"

\* lines 224-228 fail: the response headers cannot be sent, do_GET raises
\* before it subscribes.
HeadersFail(c) ==
    /\ cpc[c] = "OPEN"
    /\ Accepted(c)
    /\ cpc' = [cpc EXCEPT ![c] = "CLOSED"]
    /\ exc' = [exc EXCEPT ![c] = "headers"]
    /\ lastFan' = NoFan
    /\ UNCHANGED <<busVars, peer, wire, got, overflowed, subAt, waitlog, fanPre,
                   fanDisturbed, ackLate, apiVars, parseVars, tailVars>>

\* lines 224-230: headers sent, q = bus.subscribe().
SubscribeConn(c) ==
    /\ cpc[c] = "OPEN"
    /\ Accepted(c)
    /\ peer[c] = "up"
    /\ Subscribe(c)
    /\ cpc' = [cpc EXCEPT ![c] = "ACK"]
    /\ subAt' = [subAt EXCEPT ![c] = Len(published)]
    /\ lastFan' = NoFan
    /\ UNCHANGED <<pubpc, pubSubs, pubCur, pubPayload, published, peer, wire, got,
                   exc, overflowed, waitlog, fanPre, fanDisturbed, ackLate,
                   apiVars, parseVars, tailVars>>

\* Mutant: the streaming loop is entered without the ": ok" frame.
WriteAckSkipped(c) ==
    /\ cpc[c] = "ACK"
    /\ cpc' = [cpc EXCEPT ![c] = "WAIT"]
    /\ lastFan' = NoFan
    /\ UNCHANGED <<busVars, peer, wire, got, exc, overflowed, subAt, waitlog, fanPre,
                   fanDisturbed, ackLate, apiVars, parseVars, tailVars>>

\* lines 233-234: the ": ok" comment frame.
WriteAck(c) == Write(c, "ACK", AckFrame)

\* line 238, q.get(timeout=15) returns an item.
GetItem(c) ==
    /\ cpc[c] = "WAIT"
    /\ ~QEmpty(queue[c])
    /\ got' = [got EXCEPT ![c] = Head(queue[c])]
    /\ queue' = [queue EXCEPT ![c] = QGet(@)]
    /\ cpc' = [cpc EXCEPT ![c] = "EVENT"]
    /\ waitlog' = [waitlog EXCEPT ![c] = Append(@, EventFrame(Head(queue[c])))]
    /\ fanDisturbed' = (fanDisturbed \/ (pubpc \in {"drop", "retry"} /\ pubCur = c))
    /\ lastFan' = NoFan
    /\ UNCHANGED <<registry, pubpc, pubSubs, pubCur, pubPayload, published, peer,
                   wire, exc, overflowed, subAt, fanPre, ackLate, apiVars, parseVars, tailVars>>

\* Mutant: q.get() without a timeout, which waits until an item arrives.
GetWithoutTimeout(c) ==
    /\ FALSE
    /\ UNCHANGED vars

\* line 238, q.get(timeout=15) raises queue.Empty: the queue stayed empty for
\* the whole timeout.  (The timeouts of a connection whose peer is there are
\* bounded by MaxPing; one whose peer is gone ends at its next write.)
GetTimeout(c) ==
    /\ cpc[c] = "WAIT"
    /\ QEmpty(queue[c])
    /\ Pings(c) < MaxPing \/ peer[c] = "down"
    /\ cpc' = [cpc EXCEPT ![c] = "PING"]
    /\ waitlog' = [waitlog EXCEPT ![c] = Append(@, PingFrame)]
    /\ lastFan' = NoFan
    /\ UNCHANGED <<busVars, peer, wire, got, exc, overflowed, subAt, fanPre,
                   fanDisturbed, ackLate, apiVars, parseVars, tailVars>>

\* lines 239-241: the event frame.
WriteEvent(c) == Write(c, "EVENT", EventFrame(got[c]))

\* Mutant: a timeout goes back to waiting without a keep-alive.
WritePingSkipped(c) ==
    /\ cpc[c] = "PING"
    /\ cpc' = [cpc EXCEPT ![c] = "WAIT"]
    /\ lastFan' = NoFan
    /\ UNCHANGED <<busVars, peer, wire, got, exc, overflowed, subAt, waitlog, fanPre,
                   fanDisturbed, ackLate, apiVars, parseVars, tailVars>>

\* lines 244-245: the keep-alive frame.
WritePing(c) == Write(c, "PING", PingFrame)

\* Mutant: the cleanup sits in the `except (BrokenPipeError, ...)` clause, so
\* any other exception leaves without it.
FinallyOnlyOnPeerError(c) ==
    /\ cpc[c] = "FINALLY"
    /\ IF exc[c] = "peer" THEN Unsubscribe(c) ELSE UNCHANGED registry
    /\ cpc' = [cpc EXCEPT ![c] = "CLOSED"]
    /\ lastFan' = NoFan
    /\ UNCHANGED <<queue, pubpc, pubSubs, pubCur, pubPayload, published, peer,
                   wire, got, exc, overflowed, subAt, waitlog, fanPre,
                   fanDisturbed, ackLate, apiVars, parseVars, tailVars>>

\* lines 246-250: the exception reaches `finally`, which unsubscribes; the
\* handler returns (or re-raises) and the connection is closed.
Finally(c) ==
    /\ cpc[c] = "FINALLY"
    /\ Unsubscribe(c)
    /\ cpc' = [cpc EXCEPT ![c] = "CLOSED"]
    /\ lastFan' = NoFan
    /\ UNCHANGED <<queue, pubpc, pubSubs, pubCur, pubPayload, published, peer,
                   wire, got, exc, overflowed, subAt, waitlog, fanPre,
                   fanDisturbed, ackLate, apiVars, parseVars, tailVars>>

\* The remote end goes away.
PeerDisconnect(c) ==
    /\ peer[c] = "up"
    /\ cpc[c] \in {"ACK", "WAIT", "EVENT", "PING"}
    /\ peer' = [peer EXCEPT ![c] = "down"]
    /\ lastFan' = NoFan
    /\ UNCHANGED <<busVars, cpc, wire, got, exc, overflowed, subAt, waitlog, fanPre,
                   fanDisturbed, ackLate, apiVars, parseVars, tailVars>>

ConnStep(c) ==
    \/ HeadersFail(c)
    \/ SubscribeConn(c)
    \/ WriteAck(c)
    \/ GetItem(c)
    \/ GetTimeout(c)
    \/ WriteEvent(c)
    \/ WritePing(c)
    \/ Finally(c)

\* ------------------------------------------------- a direct EventBus client
\* q = bus.subscribe()
ApiSubscribe(c) ==
    /\ c \notin handles
    /\ Subscribe(c)
    /\ handles' = handles \cup {c}
    /\ UNCHANGED <<pubpc, pubSubs, pubCur, pubPayload, published, connVars,
                   histVars, apiLast, parseVars, tailVars>>

\* bus.unsubscribe(q) on any handle it holds, member of the registry or not.
ApiUnsubscribe(c) ==
    /\ c \in handles
    /\ IF Discard(registry, c).raised THEN UNCHANGED registry ELSE Unsubscribe(c)
    /\ UNCHANGED queue
    /\ apiLast' = [q |-> c, member |-> c \in registry,
                   raised |-> Discard(registry, c).raised,
                   regBefore |-> registry, regAfter |-> registry',
                   queueSame |-> (queue' = queue)]
    /\ UNCHANGED <<pubpc, pubSubs, pubCur, pubPayload, published, connVars,
                   histVars, handles, parseVars, tailVars>>

\* --------------------------------------------------------------- parse_line
RECURSIVE LStrip(_)
LStrip(l) == IF l # <<>> /\ Head(l) = "\n" THEN LStrip(Tail(l)) ELSE l
RECURSIVE RStrip(_)
RStrip(l) ==
    IF l # <<>> /\ l[Len(l)] = "\n" THEN RStrip(SubSeq(l, 1, Len(l) - 1)) ELSE l
\* str.strip(): the only whitespace of the model's alphabet is "\n".
Strip(l) == LStrip(RStrip(l))

\* parse_line(line), as far as the tailer is concerned: no event for a line
\* that does not match ANTI_TAMPERING_WARN_RE, else one event that keeps the
\* line as `raw`.  The result is <<>> for None and <<event>> otherwise.
ParseLine(l) ==
    LET m == Strip(l)
    IN  IF m # <<>> /\ Head(m) = "H" THEN <<[raw |-> RStrip(l)]>> ELSE <<>>

Min(S) == CHOOSE m \in S : \A n \in S : m <= n

\* ------------------------------------------------- parse_line, in full
Lines == UNION {[1..n -> Tokens] : n \in 0..MaxLineLen}

RECURSIVE LStripWs(_)
LStripWs(l) == IF l # <<>> /\ Head(l) = " " THEN LStripWs(Tail(l)) ELSE l
RECURSIVE RStripWs(_)
RStripWs(l) ==
    IF l # <<>> /\ l[Len(l)] = " " THEN RStripWs(SubSeq(l, 1, Len(l) - 1)) ELSE l
\* str.strip() on a line of pieces.
StripWs(l) == LStripWs(RStripWs(l))

\* A piece of S at the head of what is left, then `\s*`: <<what is left>>
\* after them, or <<>> once the match has failed.
Eat(left, S) ==
    IF left # <<>> /\ left[1] # <<>> /\ Head(left[1]) \in S
    THEN <<LStripWs(Tail(left[1]))>> ELSE <<>>

\* lines 30-37, 98, 104: ANTI_TAMPERING_WARN_RE.match(line.strip()), as <<>>
\* for no match and <<msg>>, msg the stripped group "msg", for a match.  The
\* group "ts" is any bracketed text, a bracketed tag included.
ANTI_TAMPERING_WARN_RE(line) ==
    LET left == Eat(Eat(Eat(<<StripWs(line)>>, {"TS", "TAG"}), {"-"}), {"TAG"})
    IN  IF left = <<>> THEN <<>> ELSE <<StripWs(left[1])>>

In(t, msg) == \E i \in DOMAIN msg : msg[i] = t
\* The index of the first piece of msg that is in S (S has one in msg).
First(S, msg) == Min({i \in DOMAIN msg : msg[i] \in S})
\* msg.split(t, 1)[1]
After(t, msg) == SubSeq(msg, First({t}, msg) + 1, Len(msg))

\* lines 41-49, 109: MISMATCH_RE.search(msg), the leftmost match: <<>> or
\* <<the piece matched>>.
MISMATCH_RE(msg) ==
    IF In("MM", msg) \/ In("BIG", msg)
    THEN <<msg[First({"MM", "BIG"}, msg)]>> ELSE <<>>

\* lines 118-119: int(mm.group(...)).  The regular expression accepts any
\* number of digits; int() of more than 4300 digits raises ValueError on the
\* interpreters that limit the conversion (the default since 3.11 and in the
\* later releases of 3.7 to 3.10) and returns on the others.
int(piece) == IF piece = "BIG" THEN {"int", "ValueError"} ELSE {"int"}

Event(sev, shape) == [kind |-> "event", severity |-> sev, shape |-> shape]
Raised == [kind |-> "raise", severity |-> "", shape |-> ""]
None == [kind |-> "none", severity |-> "", shape |-> ""]

\* Mutant: the default is "danger".
DefaultSeverityDanger == "danger"
\* line 107
DefaultSeverity == "warning"

\* lines 97-161: the outcomes of parse_line(line).
parse_line(line) ==
    LET m == ANTI_TAMPERING_WARN_RE(line)
        msg == m[1]
        severity == DefaultSeverity
        mm == MISMATCH_RE(msg)
        \* lines 129-130: the two splits; the unpacking fails when the second
        \* text does not follow the first "Hash file "
        unpacked == In("NE", After("HF", msg))
    IN  IF m = <<>> THEN {None}
        ELSE IF mm # <<>>
        THEN {IF r = "int" THEN Event("danger", "mismatch") ELSE Raised :
                r \in int(mm[1])}
        ELSE IF In("HF", msg) /\ In("NE", msg) /\ unpacked
        THEN {Event(severity, "hashfile")}
        ELSE IF In("FO", msg)
        THEN {Event(severity, "openfd")}
        ELSE {Event(severity, "generic")}

\* The call ev = parse_line(line).
Parse ==
    /\ pres = Unparsed
    /\ \E r \in parse_line(pline) : pres' = r
    /\ UNCHANGED <<pline, busVars, connVars, histVars, apiVars, tailVars>>

\* ------------------------------------------------------------ the file system

\* f.readline() at position p of content `data`: up to and including the next
\* newline, or what is left of the file, or "" at (or beyond) its end.
ReadLine(data, p) ==
    LET rest == SubSeq(data, p + 1, Len(data))
        nl == {i \in 1..Len(rest) : rest[i] = "\n"}
    IN  IF nl = {} THEN rest ELSE SubSeq(rest, 1, Min(nl))

\* The content of the inodes in use (named by the path or held open by the
\* tailer); an inode that is neither is free, its content gone.
Live(data, path, held) ==
    [i \in Inodes |-> IF i \in {path, held} THEN data[i] ELSE <<>>]

BetweenPolls == tpc \in {"sleep", "loop", "stat"}

\* The writer of the log appends a character.
FsAppend(ch) ==
    /\ fsPath # NoFile
    /\ Len(fsData[fsPath]) < MaxFileLen
    /\ fsData' = [fsData EXCEPT ![fsPath] = Append(@, ch)]
    /\ UNCHANGED <<fsPath, fsOps, stop, tpc, pos, last_inode, fh, fpos,
                   truncSeek, tailObs, busVars, connVars, histVars, apiVars, parseVars, passVars, afterStop>>

\* The file is truncated in place to k characters.
FsTruncate(k) ==
    /\ fsPath # NoFile
    /\ fsOps < MaxFsOps
    /\ k < Len(fsData[fsPath])
    /\ fsData' = [fsData EXCEPT ![fsPath] = SubSeq(@, 1, k)]
    /\ fsOps' = fsOps + 1
    /\ truncSeek' = IF BetweenPolls /\ last_inode = fsPath /\ k < pos
                    THEN "pending" ELSE truncSeek
    /\ UNCHANGED <<fsPath, stop, tpc, pos, last_inode, fh, fpos, tailObs,
                   busVars, connVars, histVars, apiVars, parseVars, passVars, afterStop>>

\* The file is rotated: the path now names a new, empty file.  An inode the
\* tailer holds open is in use and cannot be the new one.
FsRotate(i) ==
    /\ fsPath # NoFile
    /\ fsOps < MaxFsOps
    /\ i \notin {fsPath, fh}
    /\ fsPath' = i
    /\ fsData' = Live([fsData EXCEPT ![i] = <<>>], i, fh)
    /\ fsOps' = fsOps + 1
    /\ UNCHANGED <<stop, tpc, pos, last_inode, fh, fpos, truncSeek, tailObs,
                   busVars, connVars, histVars, apiVars, parseVars, passVars, afterStop>>

\* The file is removed.
FsRemove ==
    /\ fsPath # NoFile
    /\ fsOps < MaxFsOps
    /\ fsPath' = NoFile
    /\ fsData' = Live(fsData, NoFile, fh)
    /\ fsOps' = fsOps + 1
    /\ UNCHANGED <<stop, tpc, pos, last_inode, fh, fpos, truncSeek,
                   tailObs, busVars, connVars, histVars, apiVars, parseVars, passVars, afterStop>>

\* The file is created, empty; its inode may be one the path named before.
FsCreate(i) ==
    /\ fsPath = NoFile
    /\ i # fh
    /\ fsPath' = i
    /\ fsData' = Live([fsData EXCEPT ![i] = <<>>], i, fh)
    /\ UNCHANGED <<fsOps, stop, tpc, pos, last_inode, fh, fpos, truncSeek,
                   tailObs, busVars, connVars, histVars, apiVars, parseVars, passVars, afterStop>>

\* ------------------------------------------------------------------ tail_file
\* main's `finally: stop_evt.set()`.
StopSet ==
    /\ ~stop
    /\ stop' = TRUE
    /\ UNCHANGED <<fsVars, tpc, pos, last_inode, fh, fpos, truncSeek, tailObs,
                   busVars, connVars, histVars, apiVars, parseVars, passVars, afterStop>>

\* line 173: while not stop_evt.is_set()
TailLoop ==
    /\ tpc = "loop"
    /\ tpc' = IF stop THEN "done" ELSE "stat"
    /\ UNCHANGED <<fsVars, stop, pos, last_inode, fh, fpos, truncSeek, tailObs,
                   busVars, connVars, histVars, apiVars, parseVars, passVars, afterStop>>

\* Mutant: FileNotFoundError is swallowed like any other exception.
FileNotFoundIgnored == [last_inode |-> last_inode, pos |-> pos]
\* lines 196-198: except FileNotFoundError
FileNotFoundHandler == [last_inode |-> NoFile, pos |-> 0]

\* History: the cursor is reset, a new pass begins; the pass it ends is kept
\* if it had reached the end of its file.
ResetPass ==
    /\ prev' = IF record /\ pass.seen # <<>> THEN pass ELSE prev
    /\ pass' = IF record
               THEN [seen |-> <<>>, read |-> <<>>,
                     from |-> Len(published), to |-> Len(published)]
               ELSE pass
    /\ UNCHANGED record

\* The poll found the path missing (in stat or in open): the handler runs,
\* the `with` block, if entered, is left, and the tailer goes to sleep.
TailMissing ==
    /\ last_inode' = FileNotFoundHandler.last_inode
    /\ pos' = FileNotFoundHandler.pos
    /\ tpc' = "sleep"
    /\ tailObs' = [kind |-> "missing", seen |-> NoFile, changed |-> FALSE,
                   afterMissing |-> FALSE, sameAsLost |-> FALSE,
                   lost |-> IF tailObs.kind = "missing" THEN tailObs.lost
                            ELSE IF pos > 0 THEN last_inode ELSE NoFile,
                   err |-> TRUE]
    /\ ResetPass

\* What the history keeps of a poll once it is over, and whether an exception
\* ended it.
PollOver(raised) ==
    [(IF tailObs.kind = "missing" THEN tailObs ELSE NoObs) EXCEPT !.err = raised]

\* Mutant: no `except Exception` clause, the exception leaves tail_file.
TailCrash ==
    /\ tpc' = "done"
    /\ tailObs' = PollOver(TRUE)
    /\ UNCHANGED <<pos, last_inode>>

\* lines 199-201: any other exception is swallowed.
TailSwallow ==
    /\ tpc' = "sleep"
    /\ tailObs' = PollOver(TRUE)
    /\ UNCHANGED <<pos, last_inode>>

\* lines 175-184: path.stat(), then the cursor is reset on a new identity and
\* on a size below pos.
TailStat ==
    /\ tpc = "stat"
    /\ \/ /\ fsPath = NoFile
          /\ TailMissing
          /\ UNCHANGED truncSeek
       \/ /\ fsPath # NoFile
          /\ LET inode == fsPath
                 size == Len(fsData[fsPath])
                 pos1 == IF last_inode # inode THEN 0 ELSE pos
             IN  /\ last_inode' = inode
                 /\ pos' = IF size < pos1 THEN 0 ELSE pos1
                 /\ tailObs' = [kind |-> "ok", seen |-> inode,
                                changed |-> last_inode # inode,
                                afterMissing |-> tailObs.kind = "missing",
                                sameAsLost |-> tailObs.kind = "missing"
                                                 /\ tailObs.lost = inode,
                                lost |-> NoFile, err |-> FALSE]
                 /\ IF last_inode # inode \/ size < pos1
                    THEN ResetPass ELSE UNCHANGED passVars
          /\ tpc' = "open"
          /\ UNCHANGED truncSeek
    /\ UNCHANGED <<fsVars, stop, fh, fpos, busVars, connVars, histVars, apiVars, parseVars,
                   afterStop>>

\* line 175 raises an OSError other than FileNotFoundError.
TailStatError ==
    /\ tpc = "stat"
    /\ fsPath # NoFile
    /\ TailSwallow
    /\ UNCHANGED <<fsVars, stop, fh, fpos, truncSeek, busVars, connVars, histVars,
                   apiVars, parseVars, passVars, afterStop>>

\* lines 186-187: path.open() and f.seek(pos).
TailOpen ==
    /\ tpc = "open"
    /\ \/ /\ fsPath = NoFile
          /\ TailMissing
          /\ UNCHANGED <<fh, fpos, truncSeek>>
       \/ /\ fsPath # NoFile
          /\ fh' = fsPath
          /\ fpos' = pos
          /\ truncSeek' = IF truncSeek = "pending"
                          THEN (IF pos = 0 THEN "none" ELSE "stale")
                          ELSE truncSeek
          /\ tpc' = "check"
          /\ UNCHANGED <<pos, last_inode, tailObs, passVars>>
    /\ UNCHANGED <<fsVars, stop, busVars, connVars, histVars, apiVars, parseVars, afterStop>>

\* line 186 raises an OSError other than FileNotFoundError.
TailOpenError ==
    /\ tpc = "open"
    /\ fsPath # NoFile
    /\ TailSwallow
    /\ UNCHANGED <<fsVars, stop, fh, fpos, truncSeek, busVars, connVars, histVars,
                   apiVars, parseVars, passVars, afterStop>>

\* The `with` block is left: f is closed, and an inode the path no longer
\* names is freed.
CloseFile ==
    /\ fsData' = Live(fsData, fsPath, NoFile)
    /\ UNCHANGED <<fsPath, fsOps>>

\* Mutant: the inner loop is `while True`.
InnerStopIgnored == FALSE
\* line 188: the test of the inner loop, stop_evt.is_set().
InnerStop == stop

\* line 188: while not stop_evt.is_set(), once the publish call of the line
\* before has returned; a set signal leaves the loop and the `with` block.
TailCheck ==
    /\ tpc = "check"
    /\ pubpc = "idle"
    /\ IF InnerStop
       THEN /\ tpc' = "sleep"
            /\ fh' = NoFile
            /\ fpos' = 0
            /\ tailObs' = PollOver(FALSE)
            /\ CloseFile
       ELSE /\ tpc' = "read"
            /\ UNCHANGED <<fh, fpos, tailObs, fsVars>>
    /\ UNCHANGED <<stop, pos, last_inode, truncSeek, busVars, connVars, histVars,
                   apiVars, parseVars, passVars, afterStop>>

\* lines 189-195: f.readline(); at the end of the file the position is saved
\* and the `with` block left; else parse_line(line) and, for an event, the
\* call of publish (whose fan-out then runs to its return).
TailRead ==
    /\ tpc = "read"
    /\ LET l == ReadLine(fsData[fh], fpos)
       IN  IF l = <<>>
           THEN /\ pos' = fpos
                /\ tpc' = "sleep"
                /\ fh' = NoFile
                /\ fpos' = 0
                /\ tailObs' = PollOver(FALSE)
                /\ CloseFile
                /\ pass' = IF record
                           THEN [pass EXCEPT
                                   !.seen = SubSeq(fsData[fh], 1,
                                                   Min({fpos, Len(fsData[fh])})),
                                   !.to = Len(published)]
                           ELSE pass
                /\ UNCHANGED <<pubpc, pubSubs, pubCur, pubPayload, published,
                               record, prev, afterStop>>
           ELSE /\ fpos' = fpos + Len(l)
                /\ tpc' = "check"
                /\ afterStop' = [afterStop EXCEPT
                                    !.reads = IF stop THEN @ + 1 ELSE @]
                /\ pass' = IF record /\ Len(pass.read) <= MaxFileLen
                           THEN [pass EXCEPT !.read = @ \o l]
                           ELSE pass
                /\ UNCHANGED <<record, prev>>
                /\ IF ParseLine(l) = <<>>
                   THEN UNCHANGED <<pubpc, pubSubs, pubCur, pubPayload, published>>
                   ELSE /\ Len(published) < MaxPublish
                        /\ PublishSnapshot(ParseLine(l)[1])
                /\ UNCHANGED <<pos, fh, tailObs, fsVars>>
    /\ UNCHANGED <<stop, last_inode, truncSeek, registry, queue, connVars, histVars,
                   apiVars, parseVars>>

\* line 189 raises (an I/O error) or line 193 does (parse_line): swallowed at
\* lines 199-201, the `with` block is left without saving the position.
TailReadError ==
    /\ tpc = "read"
    /\ TailSwallow
    /\ fh' = NoFile
    /\ fpos' = 0
    /\ CloseFile
    /\ UNCHANGED <<stop, truncSeek, busVars, connVars, histVars, apiVars, parseVars, passVars,
                   afterStop>>

\* line 203: time.sleep(0.25)
TailSleep ==
    /\ tpc = "sleep"
    /\ tpc' = "loop"
    /\ afterStop' = [afterStop EXCEPT !.sleeps = IF stop THEN @ + 1 ELSE @]
    /\ UNCHANGED <<fsVars, stop, pos, last_inode, fh, fpos, truncSeek, tailObs,
                   busVars, connVars, histVars, apiVars, parseVars, passVars>>

TailStep ==
    \/ TailLoop
    \/ TailStat
    \/ TailStatError
    \/ TailOpen
    \/ TailOpenError
    \/ TailCheck
    \/ TailRead
    \/ TailReadError
    \/ TailSleep

FsStep ==
    \/ \E ch \in Chars : FsAppend(ch)
    \/ \E k \in 0..MaxFileLen : FsTruncate(k)
    \/ \E i \in Inodes : FsRotate(i)
    \/ FsRemove
    \/ \E i \in Inodes : FsCreate(i)

\* ------------------------------------------------------------ specification
InitState ==
    /\ registry = {}
    /\ queue = [c \in Conns |-> <<>>]
    /\ pubpc = "idle"
    /\ pubSubs = {}
    /\ pubCur = NoConn
    /\ pubPayload = 0
    /\ published = <<>>
    /\ cpc = [c \in Conns |-> "OPEN"]
    /\ peer = [c \in Conns |-> "up"]
    /\ wire = [c \in Conns |-> <<>>]
    /\ got = [c \in Conns |-> 0]
    /\ exc = [c \in Conns |-> "none"]
    /\ overflowed = [c \in Conns |-> FALSE]
    /\ subAt = [c \in Conns |-> 0]
    /\ waitlog = [c \in Conns |-> <<>>]
    /\ fanPre = <<>>
    /\ fanDisturbed = FALSE
    /\ lastFan = NoFan
    /\ ackLate = [c \in Conns |-> FALSE]
    /\ handles = {}
    /\ apiLast = NoApi
    /\ fsPath = NoFile
    /\ fsData = [i \in Inodes |-> <<>>]
    /\ fsOps = 0
    /\ stop = FALSE
    /\ tpc = "loop"
    /\ pos = 0
    /\ last_inode = NoFile
    /\ fh = NoFile
    /\ fpos = 0
    /\ truncSeek = "none"
    /\ tailObs = NoObs
    /\ pass = NoPass
    /\ prev = NoPass
    /\ afterStop = [reads |-> 0, sleeps |-> 0]

Init == InitState /\ record = FALSE /\ pline = <<>> /\ pres = Unparsed

\* The same, with the history of the passes kept.
InitRecord == InitState /\ record = TRUE /\ pline = <<>> /\ pres = Unparsed

\* parse_line on its own: any line of at most MaxLineLen pieces.
InitParse == InitState /\ record = FALSE /\ pline \in Lines /\ pres = Unparsed

Next ==
    \/ CallPublish
    \/ PublishStep
    \/ \E c \in Conns : ConnStep(c)
    \/ \E c \in Conns : PeerDisconnect(c)

Spec == Init /\ [][Next]_vars

\* The EventBus under a client that calls subscribe, unsubscribe and publish
\* in any order.
NextApi ==
    \/ CallPublish
    \/ PublishStep
    \/ \E c \in Conns : ApiSubscribe(c)
    \/ \E c \in Conns : ApiUnsubscribe(c)

SpecApi == Init /\ [][NextApi]_vars

\* The tailer and the file it follows, with no /events connection: every
\* publish call finds the registry empty and returns.
NextTail ==
    \/ TailStep
    \/ PublishReturn
    \/ FsStep
    \/ StopSet

SpecTail == Init /\ [][NextTail]_vars

\* The same, with the history of the passes kept.
SpecPass == InitRecord /\ [][NextTail]_vars

\* parse_line applied to any line.
NextParse == Parse

SpecParse == InitParse /\ [][NextParse]_vars

\* The tailer thread keeps running, and so does the publish call it made.
FairTail == SpecTail /\ WF_vars(TailStep) /\ WF_vars(PublishReturn)

FairSpec == Spec /\ \A c \in Conns : WF_vars(ConnStep(c))

\* ------------------------------------------------------------------ helpers
IsEvent(f) == f.type = "event"
\* The payloads of the event frames of w, in order.
EventPayloads(w) ==
    LET ev == SelectSeq(w, IsEvent) IN [i \in 1..Len(ev) |-> ev[i].payload]
\* <<a+1, ..., b>>
Interval(a, b) == [i \in 1..(b - a) |-> a + i]
StrictlyIncreasing(s) == \A i \in 1..(Len(s) - 1) : s[i] < s[i + 1]
Subscribed(c) == cpc[c] \in {"ACK", "WAIT", "EVENT", "PING"}
\* The number of publish calls whose fan-out has dealt with c's queue.
Fanned(c) ==
    IF pubpc # "idle" /\ c \in pubSubs THEN Len(published) - 1 ELSE Len(published)
\* What c has been handed so far: written, dequeued and about to be written,
\* or still queued.
Handed(c) ==
    EventPayloads(wire[c]) \o (IF cpc[c] = "EVENT" THEN <<got[c]>> ELSE <<>>)
        \o queue[c]

\* ------------------------------------------------------------------- claims

\* C1: a subscriber that never dequeues does not hold up publish, and a
\* subscriber whose queue never overflows gets every payload once, in order.
\* Whatever the queues hold, the publish call in progress can take its next
\* step (no step of it waits), and a subscribed connection on whose queue
\* put_nowait never raised Full has been handed exactly the payloads
\* published since it subscribed, each once, in publish order.
C1_BackpressureIsolation ==
    /\ pubpc # "idle" => ENABLED PublishStep
    /\ \A h \in Conns :
          (Subscribed(h) /\ ~overflowed[h]) =>
              Handed(h) = Interval(subAt[h], Fanned(h))

\* C1 witness: more payloads than the capacity were published, all calls
\* returned; one subscriber never dequeued and overflowed, the other never
\* overflowed and has every payload on its wire.
C1_Witness ==
    \E s, h \in Conns :
        /\ s # h
        /\ Len(published) > QueueMaxsize
        /\ pubpc = "idle"
        /\ Subscribed(s) /\ waitlog[s] = <<>> /\ overflowed[s]
        /\ subAt[s] = 0 /\ subAt[h] = 0
        /\ Subscribed(h) /\ ~overflowed[h]
        /\ EventPayloads(wire[h]) = Interval(0, Len(published))

\* C2: when put_nowait raised Full and the consumer did not dequeue before
\* the handler finished, the queue went from <<x1, ..., xN>> to
\* <<x2, ..., xN, payload>>: exactly the oldest item was dropped.
C2_DropOldest ==
    (lastFan.outcome # "none" /\ ~lastFan.disturbed) =>
        /\ Len(lastFan.pre) = QueueMaxsize
        /\ lastFan.outcome = "put"
        /\ lastFan.post = Append(Tail(lastFan.pre), lastFan.payload)

\* C2 witness: a Full handler has completed undisturbed.
C2_Witness ==
    /\ lastFan.outcome = "put"
    /\ ~lastFan.disturbed
    /\ Len(lastFan.pre) = QueueMaxsize
    /\ lastFan.post # lastFan.pre

\* C3: no subscriber queue ever holds more than the capacity.
C3_QueueBounded == \A c \in Conns : Len(queue[c]) <= QueueMaxsize

\* C3 witness: a queue is at capacity after a put on it was refused.
C3_Witness ==
    \E c \in Conns : Len(queue[c]) = QueueMaxsize /\ overflowed[c] /\ pubpc = "idle"

\* C4: the event frames written to a connection carry payloads in publish
\* order, none twice: their ordinals strictly increase and are ordinals of
\* publish calls that were made.
C4_WireIsSubsequence ==
    \A c \in Conns :
        LET ev == EventPayloads(wire[c])
        IN  /\ StrictlyIncreasing(ev)
            /\ \A i \in 1..Len(ev) : ev[i] \in 1..Len(published)

\* C4 witness: a connection was written two event frames with a dropped
\* payload between them.
C4_Witness ==
    \E c \in Conns :
        /\ Len(EventPayloads(wire[c])) >= 2
        /\ EventPayloads(wire[c])[2] > EventPayloads(wire[c])[1] + 1

\* C5: the registry holds exactly the queues of the connections that have
\* subscribed and whose try/finally around the streaming loop has not
\* completed; in particular it starts empty, a CLOSED connection's queue is
\* not in it, and no step of publish changes it.
C5_RegistryExact ==
    registry = {c \in Conns : cpc[c] \in {"ACK", "WAIT", "EVENT", "PING", "FINALLY"}}

\* C5 witness: one connection left its loop on a peer disconnect and another
\* on a different error of a write (both had subscribed), payloads were
\* published, and the registry is empty again.
C5_Witness ==
    \E a, b \in Conns :
        /\ cpc[a] = "CLOSED" /\ exc[a] = "peer"
        /\ cpc[b] = "CLOSED" /\ exc[b] = "other"
        /\ Len(published) > 0
        /\ registry = {}

\* C6: unsubscribe of a handle that is not in the registry returns normally
\* and changes neither the registry nor any queue (so a second unsubscribe
\* after a first adds nothing to it).
C6_UnsubscribeIdempotent ==
    (apiLast.q # NoConn /\ ~apiLast.member) =>
        /\ ~apiLast.raised
        /\ apiLast.regAfter = apiLast.regBefore
        /\ apiLast.queueSame

\* C6 witness: unsubscribe was called on a handle an earlier unsubscribe had
\* removed, while another queue was registered and held payloads.
C6_Witness ==
    /\ apiLast.q # NoConn
    /\ ~apiLast.member
    /\ apiLast.regBefore # {}
    /\ \E c \in registry : queue[c] # <<>>

\* C7: the first frame written to a connection is the acknowledgement.
C7_AckFirst == \A c \in Conns : wire[c] # <<>> => wire[c][1] = AckFrame

\* C7 witness: a payload was already queued when the acknowledgement was
\* written; the acknowledgement is on the wire and the payload, dequeued, is
\* about to follow it.
C7_Witness ==
    \E c \in Conns :
        /\ ackLate[c]
        /\ wire[c] = <<AckFrame>>
        /\ cpc[c] = "EVENT"

\* C8: in the streaming loop every q.get that has returned or timed out is
\* followed by the write of exactly one frame, the event frame of the payload
\* it returned or a keep-alive if it timed out (the frames after the
\* acknowledgement are the outcomes of the waits, the last one pending); and
\* a connection to which nothing is published is eventually closed or sent a
\* keep-alive.
C8_Frames(c) ==
    LET body == IF wire[c] = <<>> THEN <<>> ELSE Tail(wire[c])
        done == IF waitlog[c] = <<>> THEN <<>>
                ELSE SubSeq(waitlog[c], 1, Len(waitlog[c]) - 1)
    IN  /\ cpc[c] \in {"OPEN", "ACK"} => waitlog[c] = <<>> /\ body = <<>>
        /\ cpc[c] = "WAIT" => body = waitlog[c]
        /\ cpc[c] = "EVENT" =>
              body = done /\ waitlog[c][Len(waitlog[c])] = EventFrame(got[c])
        /\ cpc[c] = "PING" =>
              body = done /\ waitlog[c][Len(waitlog[c])] = PingFrame
        /\ cpc[c] \in {"FINALLY", "CLOSED"} => waitlog[c] = <<>> /\ body = <<>>

C8_WaitEndsInFrame ==
    /\ [](\A c \in Conns : C8_Frames(c))
    /\ \A c \in Conns :
          <>(published # <<>> \/ cpc[c] \in {"FINALLY", "CLOSED"}
                \/ PingFrame \in {wire[c][i] : i \in DOMAIN wire[c]})

\* C8 witness: nothing was published and an open connection was sent a
\* keep-alive after its acknowledgement.
C8_Witness ==
    \E c \in Conns :
        /\ published = <<>>
        /\ cpc[c] = "WAIT"
        /\ wire[c] = <<AckFrame, PingFrame>>

\* C9: once the file has been truncated in place below the tailer's recorded
\* offset, the next poll that opens it reads from offset 0, whatever was
\* written to it in between; the tailer never opens it at the stale offset.
C9_TruncationResets == truncSeek # "stale"

\* C10: a poll whose stat finds an identity different from the stored one, or
\* finds the file again after a poll that found it missing, has offset 0 and
\* the identity it found stored at every point from the open to the reads;
\* after a poll that found the file missing the stored identity is cleared,
\* and the tailer ends on the stop signal only.
C10_IdentityReset ==
    /\ (tailObs.kind = "ok" /\ (tailObs.changed \/ tailObs.afterMissing)) =>
          /\ tpc \in {"open", "check", "read"}
          /\ pos = 0
          /\ last_inode = tailObs.seen
          /\ last_inode # NoFile
    /\ tailObs.kind = "missing" => last_inode = NoFile /\ pos = 0
    /\ tpc = "done" => stop

\* C10 witness: the tailer had read lines of a file, a poll found it missing,
\* it reappeared with the same identity and content, and the poll in
\* progress is about to read it from offset 0.
C10_Witness ==
    /\ tailObs.kind = "ok"
    /\ tailObs.afterMissing
    /\ tailObs.sameAsLost
    /\ tpc = "read"
    /\ fpos = 0
    /\ fsData[fh] # <<>>

\* ---------------------------------------------------------------------- C11
\* The events of a pass: what was published between its reset and the last
\* time it reached the end of the file.
PassEvents(p) == SubSeq(published, p.from + 1, p.to)

\* A pass that reached the end of its file having read its content, each
\* character once.
ReadThrough(p) == p.seen # <<>> /\ p.read = p.seen

\* C11: re-tailing is idempotent: a pass that, after a cursor reset, has read
\* from offset 0 to the end of a file whose content is the content the pass
\* before read has published the same sequence of events as that pass.
C11_RetailIdempotent ==
    (ReadThrough(prev) /\ ReadThrough(pass) /\ pass.seen = prev.seen) =>
        PassEvents(pass) = PassEvents(prev)

\* ---------------------------------------------------------------------- C12
\* C12: no error raised while statting, opening, seeking or reading the file
\* ends the tailer: the loop is left only at its test and only with the stop
\* signal set, and after a poll that an error ended the tailer sleeps and
\* begins a further poll (unless it is stopped first).
C12_ErrorsSwallowed ==
    /\ [](tailObs.err => (tpc # "done" \/ stop))
    /\ [][(tpc # "done" /\ tpc' = "done") => (tpc = "loop" /\ stop)]_vars
    /\ (tailObs.err /\ tpc = "sleep") ~> (tpc = "stat" \/ stop)

\* An exception other than FileNotFoundError ended a poll after the file had
\* been found, and the next poll has begun.
C12_Witness ==
    /\ tailObs.err
    /\ tailObs.kind # "missing"
    /\ last_inode # NoFile
    /\ tpc = "stat"
    /\ ~stop

C14_DangerIffMismatch ==
    pres.kind = "event" =>
        LET m == ANTI_TAMPERING_WARN_RE(pline)
        IN  /\ m # <<>>
            /\ pres.severity \in {"danger", "warning"}
            /\ (pres.severity = "danger") <=> (MISMATCH_RE(m[1]) # <<>>)
            /\ (pres.shape = "mismatch") <=> (MISMATCH_RE(m[1]) # <<>>)
            /\ pres.shape \in {"hashfile", "openfd", "generic"} =>
                    pres.severity = "warning"

\* A message that holds a hash mismatch and the text of another shape too
\* gave a "danger" event.
C14_Witness ==
    /\ pres.kind = "event"
    /\ pres.severity = "danger"
    /\ In("MM", pline)
    /\ In("FO", pline)

\* ---------------------------------------------------------------------- C15
\* C15: parse_line returns None exactly for the lines that do not match the
\* tag grammar, and every line that matches it yields an event.
C15_NoneIffNoMatch ==
    pres.kind # "unparsed" =>
        /\ (pres.kind = "none") <=> (ANTI_TAMPERING_WARN_RE(pline) = <<>>)
        /\ ANTI_TAMPERING_WARN_RE(pline) # <<>> => pres.kind = "event"

\* ---------------------------------------------------------------------- C16
\* C16: whenever the tailer leaves the inner read loop of a poll (at the end
\* of the file or by an error) the stored offset is the position just after
\* the last line it read, so that the next poll starts at the first line not
\* yet read.  (The exit on the stop signal, which no poll follows, is left
\* aside.)
C16_OffsetSavedOnExit ==
    [][(tpc \in {"check", "read"} /\ tpc' = "sleep" /\ ~stop) => pos' = fpos]_vars

\* ---------------------------------------------------------------------- C17
\* C17: the tailer hands only complete lines to the parser: every line it
\* reads and parses ends with its newline.
C17_CompleteLinesOnly ==
    [][(tpc = "read" /\ tpc' = "check") =>
          LET line == ReadLine(fsData[fh], fpos)
          IN  line[Len(line)] = "\n"]_vars

\* ---------------------------------------------------------------------- C18
\* C18: publish works on a snapshot of the registry and holds no lock while
\* it enqueues.  While a fan-out is in progress a subscribe and an
\* unsubscribe that are due can run (they do not wait for it), and they
\* change nothing of the call (the queues left to visit, its position, its
\* payload); the snapshot is the registry at the call, each of its queues is
\* visited once, and one with room then has the payload at its tail; a
\* subscriber is handed no payload published before it subscribed, the one
\* being fanned out when it subscribed included.
C18_SnapshotFanOut ==
    /\ [](pubpc # "idle" =>
            \A c \in Conns :
                /\ (cpc[c] = "OPEN" /\ Accepted(c) /\ peer[c] = "up") =>
                        ENABLED SubscribeConn(c)
                /\ cpc[c] = "FINALLY" => ENABLED Finally(c))
    /\ [][(pubpc # "idle" /\ registry' # registry) =>
              UNCHANGED <<pubpc, pubSubs, pubCur, pubPayload, published>>]_vars
    /\ [][(pubpc = "idle" /\ pubpc' # "idle") => pubSubs' = registry]_vars
    /\ [][(pubpc # "idle" /\ pubpc' # "idle") => pubSubs' \subseteq pubSubs]_vars
    /\ [][\A q \in Conns :
              (pubpc = "iter" /\ q \in pubSubs /\ q \notin pubSubs') =>
                  /\ ~QFull(queue[q])
                  /\ queue'[q] = Append(queue[q], pubPayload)]_vars
    /\ [](\A c \in Conns :
            Subscribed(c) =>
                \A i \in DOMAIN Handed(c) : Handed(c)[i] > subAt[c])

\* A connection subscribed while a fan-out was in progress; the fan-out has
\* visited every queue of its snapshot: the earlier subscriber holds the
\* payload, the new one does not.
C18_Witness ==
    \E c, d \in Conns :
        /\ c # d
        /\ pubpc = "iter" /\ pubSubs = {}
        /\ Subscribed(c) /\ subAt[c] = Len(published)
        /\ queue[c] = <<>>
        /\ Subscribed(d) /\ subAt[d] < Len(published)
        /\ queue[d] # <<>> /\ queue[d][Len(queue[d])] = pubPayload

\* ---------------------------------------------------------------------- C19
\* C19: after the peer of a streaming connection has gone, the handler's next
\* write fails: at once if it is about to write, else after the one q.get in
\* progress has returned an item or timed out; the handler then reaches
\* `finally`, and the connection is eventually closed with its queue out of
\* the registry.
C19_DisconnectDetected ==
    /\ [][\A c \in Conns :
              (peer[c] = "down" /\ cpc'[c] # cpc[c]) =>
                  /\ cpc[c] \in {"ACK", "EVENT", "PING"} => cpc'[c] = "FINALLY"
                  /\ cpc[c] = "WAIT" => cpc'[c] \in {"EVENT", "PING"}
                  /\ cpc[c] = "FINALLY" =>
                         cpc'[c] = "CLOSED" /\ c \notin registry']_vars
    /\ \A c \in Conns :
          (peer[c] = "down") ~> (cpc[c] = "CLOSED" /\ c \notin registry)

\* A connection whose peer went away has been closed by the failed write and
\* unsubscribed, while the other one is still streaming.
C19_Witness ==
    \E c, d \in Conns :
        /\ peer[c] = "down" /\ cpc[c] = "CLOSED" /\ exc[c] = "peer"
        /\ c \notin registry
        /\ peer[d] = "up" /\ Subscribed(d) /\ d \in registry

\* ---------------------------------------------------------------------- C20
\* C20: publish removes a payload only from a queue that holds capacity-many
\* items at the moment of the removal, whatever its owner dequeues meanwhile.
C20_DropOnlyWhenFull ==
    [][(pubpc = "drop" /\ pubpc' = "retry") => QFull(queue[pubCur])]_vars


============================================================================
